---------------------------- MODULE Spec2Model ----------------------------
(***************************************************************************)
(* Model of the boat data analyzer (src/main.py): analyze_dataframe and    *)
(* the verdict reduction of the /upload route.                             *)
(*                                                                         *)
(* Units.  All channel values are exact integers in a fixed unit:          *)
(*   TPS (%)               1 %                                             *)
(*   Fuel Pressure (psi)   1 psi                                           *)
(*   IAT, ECT, ambient     1 degree C                                      *)
(*   Time (s), dt, acc     0.1 s      (cheat_delay_sec 0.5 s  = 5)         *)
(*   lambda channels       0.005      (lambda_range 0.80..0.92 = 160..184) *)
(* Lambda inputs are multiples of 0.01 (even numbers), so that the mean of *)
(* one or two lambda channels is an exact integer of the unit.             *)
(* A cell of a float column is <<>> (NaN) or <<v>> (the number v).         *)
(***************************************************************************)
EXTENDS Integers, Sequences, FiniteSets, TLC

VARIABLES
    pc,           \* position in upload / analyze_dataframe
    df,           \* the parsed CSV: [columns : set of names, rows : Seq(row)]
    ambient_temp, \* float(request.form["ambient_temp"])
    Lambda,       \* df["Lambda"]
    TPS_OK, Lambda_OK, Fuel_OK, IAT_OK, ECT_OK, \* the five rule columns
    OUT,          \* df["OUT"]
    dt,           \* df["dt"]
    acc,          \* the accumulator of the debounce loop
    debut,        \* the list built by the loop, then df["Début_triche"]
    QUALIFIE,     \* df["QUALIFIÉ"]
    err,          \* the ValueError raised by analyze_dataframe, <<>> if none
    etat,         \* the verdict string of upload, <<>> if none
    status        \* HTTP status of the response, 0 while none

vars == <<pc, df, ambient_temp, Lambda, TPS_OK, Lambda_OK, Fuel_OK, IAT_OK,
          ECT_OK, OUT, dt, acc, debut, QUALIFIE, err, etat, status>>

-----------------------------------------------------------------------------
(* Bounds of the model *)

MaxRows == 4

-----------------------------------------------------------------------------
(* CFG *)

TPS_CHEAT_MIN == 97
lambda_lo == 160
lambda_hi == 184
fuel_lo == 317
fuel_hi == 372
ambient_offset == 15
cheat_delay_sec == 5

-----------------------------------------------------------------------------
(* Float cells *)

NaN == <<>>
Num(v) == <<v>>
IsNaN(x) == x = <<>>
Val(x) == x[1]

\* x >= c, x <= c and Series.between(lo, hi) on a float cell: False on NaN
Ge(x, c) == (~IsNaN(x)) /\ Val(x) >= c
Le(x, c) == (~IsNaN(x)) /\ Val(x) <= c
between(x, lo, hi) == (~IsNaN(x)) /\ lo <= Val(x) /\ Val(x) <= hi

-----------------------------------------------------------------------------
(* Column names *)

REQUIRED == <<"TPS (%)", "Fuel Pressure (psi)", "IAT (°C)", "ECT (°C)", "Time (s)">>

RequiredSet == {REQUIRED[k] : k \in 1..Len(REQUIRED)}

\* Other column names a log may carry
OtherNames == {"Lambda 1", "LAMBDA 2", "Lamda"}

AllNames == RequiredSet \cup OtherNames

\* The characters (code points) of each column name
Chars(c) ==
    CASE c = "TPS (%)" -> <<84, 80, 83, 32, 40, 37, 41>>
      [] c = "Fuel Pressure (psi)" ->
            <<70, 117, 101, 108, 32, 80, 114, 101, 115, 115, 117, 114, 101,
              32, 40, 112, 115, 105, 41>>
      [] c = "IAT (°C)" -> <<73, 65, 84, 32, 40, 176, 67, 41>>
      [] c = "ECT (°C)" -> <<69, 67, 84, 32, 40, 176, 67, 41>>
      [] c = "Time (s)" -> <<84, 105, 109, 101, 32, 40, 115, 41>>
      [] c = "Lambda 1" -> <<76, 97, 109, 98, 100, 97, 32, 49>>
      [] c = "LAMBDA 2" -> <<76, 65, 77, 66, 68, 65, 32, 50>>
      [] c = "Lamda" -> <<76, 97, 109, 100, 97>>

\* "lambda"
lambda_needle == <<108, 97, 109, 98, 100, 97>>

\* str.lower() on the characters used here: A..Z -> a..z
lower(s) == [k \in 1..Len(s) |-> IF s[k] >= 65 /\ s[k] <= 90 THEN s[k] + 32 ELSE s[k]]

\* sub in s
Contains(sub, s) ==
    \E k \in 0..(Len(s) - Len(sub)) :
        \A j \in 1..Len(sub) : s[k + j] = sub[j]

\* for col in REQUIRED: if col not in df.columns: raise ...
\* the index in REQUIRED of the column the loop raises on, 0 if it raises on none
FirstMissing_last(columns) ==
    IF \A k \in 1..Len(REQUIRED) : REQUIRED[k] \in columns THEN 0
    ELSE CHOOSE k \in 1..Len(REQUIRED) :
            /\ REQUIRED[k] \notin columns
            /\ \A j \in (k+1)..Len(REQUIRED) : REQUIRED[j] \in columns

FirstMissing(columns) ==
    IF \A k \in 1..Len(REQUIRED) : REQUIRED[k] \in columns THEN 0
    ELSE CHOOSE k \in 1..Len(REQUIRED) :
            /\ REQUIRED[k] \notin columns
            /\ \A j \in 1..(k-1) : REQUIRED[j] \in columns

\* [c for c in df.columns if "lambda" in c.lower()]
IsLambdaCol(c) == Contains(lambda_needle, lower(Chars(c)))

lambda_cols(columns) == {c \in columns : IsLambdaCol(c)}

-----------------------------------------------------------------------------
(* Column transforms *)

RECURSIVE SumCells(_, _)
SumCells(row, cs) ==
    IF cs = {} THEN 0
    ELSE LET c == CHOOSE x \in cs : TRUE
         IN  Val(row[c]) + SumCells(row, cs \ {c})

\* DataFrame.mean(axis=1) of one row: NaN cells are skipped (skipna=True),
\* and the mean of no cell is NaN
MeanRow(row, cs) ==
    LET present == {c \in cs : ~IsNaN(row[c])}
    IN  IF present = {} THEN NaN
        ELSE Num(SumCells(row, present) \div Cardinality(present))

Column(rows, c) == [k \in 1..Len(rows) |-> rows[k][c]]

\* df["OUT"] for one row
OutRow_noTPS(tps, lam, fuel, iat, ect) == ~(lam /\ fuel /\ iat /\ ect)

OutRow(tps, lam, fuel, iat, ect) == tps /\ ~(lam /\ fuel /\ iat /\ ect)

\* Series.diff().fillna(0)
Diff(s) ==
    [k \in 1..Len(s) |->
        IF k = 1 \/ IsNaN(s[k]) \/ IsNaN(s[k-1]) THEN NaN
        ELSE Num(Val(s[k]) - Val(s[k-1]))]

FillNa0(s) == [k \in 1..Len(s) |-> IF IsNaN(s[k]) THEN Num(0) ELSE s[k]]

\* One iteration of the loop: the new acc and the element appended to debut
LoopBody_noelse(a, out, d) ==
    IF out THEN [acc |-> a + d, flag |-> (a + d >= cheat_delay_sec)]
    ELSE [acc |-> a, flag |-> (a >= cheat_delay_sec)]

LoopBody_noreset(a, out, d) ==
    IF out THEN [acc |-> a + d, flag |-> (a + d >= cheat_delay_sec)]
    ELSE [acc |-> a, flag |-> FALSE]

LoopBody_strict(a, out, d) ==
    IF out THEN [acc |-> a + d, flag |-> (a + d > cheat_delay_sec)]
    ELSE [acc |-> 0, flag |-> FALSE]

LoopBody_late(a, out, d) ==
    IF out THEN [acc |-> a + d, flag |-> (a >= cheat_delay_sec)]
    ELSE [acc |-> 0, flag |-> FALSE]

LoopBody(a, out, d) ==
    IF out THEN [acc |-> a + d, flag |-> (a + d >= cheat_delay_sec)]
    ELSE [acc |-> 0, flag |-> FALSE]

\* Series.rolling(2).max() of a bool column: NaN until two rows are in the window
Rolling2Max(s) ==
    [k \in 1..Len(s) |->
        IF k < 2 THEN NaN
        ELSE Num(IF s[k] \/ s[k-1] THEN 1 ELSE 0)]

\* ~ s.rolling(2).max().fillna(0).astype(bool)
Qualify_own(s) == [k \in 1..Len(s) |-> ~s[k]]

Qualify(s) ==
    LET r == FillNa0(Rolling2Max(s))
    IN  [k \in 1..Len(s) |-> ~(Val(r[k]) # 0)]

\* f"{t:.2f}" of a time in tenths of a second: <<whole seconds, hundredths>>
Format2f(t) == IF IsNaN(t) THEN <<"nan">> ELSE <<Val(t) \div 10, (Val(t) % 10) * 10>>

\* rows = df[df["Début_triche"]]: the indices kept, in order
RECURSIVE Kept(_, _)
Kept(flags, k) ==
    IF k > Len(flags) THEN <<>>
    ELSE IF flags[k] THEN <<k>> \o Kept(flags, k + 1) ELSE Kept(flags, k + 1)

\* the verdict of upload (the dash of the source string is written "-" here)
Verdict_last(times, flags) ==
    LET rows == Kept(flags, 1)
    IN  IF rows = <<>> THEN <<"PASS">>
        ELSE <<"CHEAT - Début à ">> \o Format2f(times[rows[Len(rows)]]) \o <<" s">>

Verdict(times, flags) ==
    LET rows == Kept(flags, 1)
    IN  IF rows = <<>> THEN <<"PASS">>
        ELSE <<"CHEAT - Début à ">> \o Format2f(times[rows[1]]) \o <<" s">>

-----------------------------------------------------------------------------
(* Inputs: the tables and ambient temperatures the analyses are run on *)

Empty == <<>>

\* Tables of up to n rows over a set of rows
RECURSIVE Tables(_, _)
Tables(rowset, n) ==
    IF n = 0 THEN {<<>>}
    ELSE LET shorter == Tables(rowset, n - 1)
         IN  shorter \cup {Append(t, r) : t \in {x \in shorter : Len(x) = n - 1}, r \in rowset}

\* A row inside every limit when the ambient temperature is 20
Typical(c) ==
    CASE c = "TPS (%)" -> Num(100)
      [] c = "Fuel Pressure (psi)" -> Num(340)
      [] c = "IAT (°C)" -> Num(20)
      [] c = "ECT (°C)" -> Num(20)
      [] c = "Time (s)" -> Num(0)
      [] OTHER -> Num(170)

\* Values around each limit, and the missing value
ChannelVals(c) ==
    CASE c = "TPS (%)" -> {NaN, Num(96), Num(97)}
      [] c = "Fuel Pressure (psi)" -> {NaN, Num(316), Num(317), Num(372), Num(373)}
      [] c = "IAT (°C)" -> {NaN, Num(35), Num(36)}
      [] c = "ECT (°C)" -> {NaN, Num(35), Num(36)}
      [] c = "Time (s)" -> {Num(0)}
      [] OTHER -> {NaN, Num(158), Num(160), Num(184), Num(186)}

\* Times of the rows of a series, in any order (tenths of a second)
TimeVals == {Num(0), Num(3), Num(5), Num(6)}

\* Any subset of the column names, one typical row
ColumnTables ==
    {[columns |-> cs, rows |-> <<[c \in cs |-> Typical(c)]>>] : cs \in SUBSET AllNames}

\* All required columns and one or two lambda channels, one row of limit values
ValueRow(ls, tps, fuel, iat, ect, l1, l2) ==
    [c \in RequiredSet \cup ls |->
        CASE c = "TPS (%)" -> tps
          [] c = "Fuel Pressure (psi)" -> fuel
          [] c = "IAT (°C)" -> iat
          [] c = "ECT (°C)" -> ect
          [] c = "Time (s)" -> Num(0)
          [] c = "Lambda 1" -> l1
          [] c = "LAMBDA 2" -> l2]

ValueTablesOver(ls) ==
    {[columns |-> RequiredSet \cup ls,
      rows |-> <<ValueRow(ls, tps, fuel, iat, ect, l1, l2)>>] :
        tps \in ChannelVals("TPS (%)"),
        fuel \in ChannelVals("Fuel Pressure (psi)"),
        iat \in ChannelVals("IAT (°C)"),
        ect \in ChannelVals("ECT (°C)"),
        l1 \in ChannelVals("Lambda 1"),
        l2 \in IF "LAMBDA 2" \in ls THEN ChannelVals("LAMBDA 2") ELSE {NaN}}

ValueTables ==
    ValueTablesOver({"Lambda 1"}) \cup ValueTablesOver({"Lambda 1", "LAMBDA 2"})

\* Full-throttle rows, lambda in range (170 = 0.85) or lean (100 = 0.50), any times
SeriesCols == RequiredSet \cup {"Lambda 1"}

SeriesRow(lam, t) ==
    [c \in SeriesCols |->
        IF c = "Time (s)" THEN t
        ELSE IF c = "Lambda 1" THEN Num(lam)
        ELSE Typical(c)]

SeriesRows == {SeriesRow(lam, t) : lam \in {100, 170}, t \in TimeVals}

SeriesTables ==
    {[columns |-> SeriesCols, rows |-> rs] : rs \in Tables(SeriesRows, MaxRows) \ {<<>>}}

\* Short series in which the time of some rows is missing
GapRows == {SeriesRow(lam, t) : lam \in {100, 170}, t \in {NaN, Num(0), Num(5)}}

GapTables ==
    {[columns |-> SeriesCols, rows |-> rs] : rs \in Tables(GapRows, 3) \ {<<>>}}

\* Five lean full-throttle rows at t = 0.0, 0.2, 0.4, 0.6, 0.8
ScenarioB ==
    [columns |-> SeriesCols,
     rows |-> [k \in 1..5 |-> SeriesRow(100, Num(2 * (k - 1)))]]

\* A row in range at t = 0.0, then one lean full-throttle row at t = 1.0
ScenarioC ==
    [columns |-> SeriesCols,
     rows |-> <<SeriesRow(170, Num(0)), SeriesRow(100, Num(10))>>]

Ambients == {20, 21}

-----------------------------------------------------------------------------
(* upload and analyze_dataframe *)

Init ==
    /\ pc = "required"
    /\ \/ df \in ColumnTables /\ ambient_temp = 20
       \/ df \in ValueTables /\ ambient_temp \in Ambients
       \/ df \in SeriesTables /\ ambient_temp = 20
       \/ df \in GapTables /\ ambient_temp = 20
       \/ df \in {ScenarioB, ScenarioC} /\ ambient_temp = 20
    /\ Lambda = Empty /\ TPS_OK = Empty /\ Lambda_OK = Empty /\ Fuel_OK = Empty
    /\ IAT_OK = Empty /\ ECT_OK = Empty /\ OUT = Empty /\ dt = Empty
    /\ acc = 0 /\ debut = Empty /\ QUALIFIE = Empty
    /\ err = Empty /\ etat = Empty /\ status = 0

N == Len(df.rows)

\* for col in REQUIRED: if col not in df.columns: raise ValueError(...)
CheckRequired ==
    /\ pc = "required"
    /\ LET k == FirstMissing(df.columns)
       IN  IF k # 0
           THEN /\ err' = <<"Colonne manquante : ", REQUIRED[k]>>
                /\ pc' = "raised"
           ELSE /\ err' = err
                /\ pc' = "lambda"
    /\ UNCHANGED <<df, ambient_temp, Lambda, TPS_OK, Lambda_OK, Fuel_OK, IAT_OK,
                   ECT_OK, OUT, dt, acc, debut, QUALIFIE, etat, status>>

\* lambda_cols = [...]; if not lambda_cols: raise; df["Lambda"] = mean(axis=1)
DetectLambda ==
    /\ pc = "lambda"
    /\ LET lc == lambda_cols(df.columns)
       IN  IF lc = {}
           THEN /\ err' = <<"Aucune colonne Lambda détectée dans le fichier">>
                /\ pc' = "raised"
                /\ Lambda' = Lambda
           ELSE /\ Lambda' = [k \in 1..N |-> MeanRow(df.rows[k], lc)]
                /\ pc' = "rules"
                /\ err' = err
    /\ UNCHANGED <<df, ambient_temp, TPS_OK, Lambda_OK, Fuel_OK, IAT_OK,
                   ECT_OK, OUT, dt, acc, debut, QUALIFIE, etat, status>>

\* the five rule columns, OUT, dt, and the loop's acc = 0.0, debut = []
Rules ==
    /\ pc = "rules"
    /\ LET tps  == [k \in 1..N |-> Ge(df.rows[k]["TPS (%)"], TPS_CHEAT_MIN)]
           lam  == [k \in 1..N |-> between(Lambda[k], lambda_lo, lambda_hi)]
           fuel == [k \in 1..N |->
                      between(df.rows[k]["Fuel Pressure (psi)"], fuel_lo, fuel_hi)]
           iat  == [k \in 1..N |-> Le(df.rows[k]["IAT (°C)"], ambient_temp + ambient_offset)]
           ect  == [k \in 1..N |-> Le(df.rows[k]["ECT (°C)"], ambient_temp + ambient_offset)]
       IN  /\ TPS_OK' = tps
           /\ Lambda_OK' = lam
           /\ Fuel_OK' = fuel
           /\ IAT_OK' = iat
           /\ ECT_OK' = ect
           /\ OUT' = [k \in 1..N |-> OutRow(tps[k], lam[k], fuel[k], iat[k], ect[k])]
    /\ dt' = FillNa0(Diff(Column(df.rows, "Time (s)")))
    /\ acc' = 0
    /\ debut' = <<>>
    /\ pc' = "loop"
    /\ UNCHANGED <<df, ambient_temp, Lambda, QUALIFIE, err, etat, status>>

\* one iteration of: for out, dt in zip(df["OUT"], df["dt"])
LoopStep ==
    /\ pc = "loop"
    /\ Len(debut) < N
    /\ LET k == Len(debut) + 1
           b == LoopBody(acc, OUT[k], Val(dt[k]))
       IN  /\ acc' = b.acc
           /\ debut' = Append(debut, b.flag)
    /\ UNCHANGED <<pc, df, ambient_temp, Lambda, TPS_OK, Lambda_OK, Fuel_OK, IAT_OK,
                   ECT_OK, OUT, dt, QUALIFIE, err, etat, status>>

\* df["Début_triche"] = debut; df["QUALIFIÉ"] = ...; return df
Return ==
    /\ pc = "loop"
    /\ Len(debut) = N
    /\ QUALIFIE' = Qualify(debut)
    /\ pc' = "returned"
    /\ UNCHANGED <<df, ambient_temp, Lambda, TPS_OK, Lambda_OK, Fuel_OK, IAT_OK,
                   ECT_OK, OUT, dt, acc, debut, err, etat, status>>

\* upload, after analyze_dataframe returned: the verdict and the page
Respond ==
    /\ pc = "returned"
    /\ etat' = Verdict(Column(df.rows, "Time (s)"), debut)
    /\ status' = 200
    /\ pc' = "done"
    /\ UNCHANGED <<df, ambient_temp, Lambda, TPS_OK, Lambda_OK, Fuel_OK, IAT_OK,
                   ECT_OK, OUT, dt, acc, debut, QUALIFIE, err>>

\* upload, except Exception as e: the error page
RespondError ==
    /\ pc = "raised"
    /\ status' = 500
    /\ pc' = "done"
    /\ UNCHANGED <<df, ambient_temp, Lambda, TPS_OK, Lambda_OK, Fuel_OK, IAT_OK,
                   ECT_OK, OUT, dt, acc, debut, QUALIFIE, err, etat>>

Next ==
    \/ CheckRequired
    \/ DetectLambda
    \/ Rules
    \/ LoopStep
    \/ Return
    \/ Respond
    \/ RespondError

Spec == Init /\ [][Next]_vars

TypeOK ==
    /\ pc \in {"required", "lambda", "rules", "loop", "returned", "raised", "done"}
    /\ status \in {0, 200, 500}

-----------------------------------------------------------------------------
(* Vocabulary of the properties *)

\* analyze_dataframe returned its annotated table
Returned == pc = "returned" \/ (pc = "done" /\ status = 200)

Time == Column(df.rows, "Time (s)")

\* the last row before j on which OUT is false, 0 if there is none
LastFalse(j) ==
    LET fs == {m \in 1..(j - 1) : ~OUT[m]}
    IN  IF fs = {} THEN 0 ELSE CHOOSE m \in fs : \A x \in fs : x <= m

\* the sum of dt over rows a..b
RECURSIVE SumDt(_, _)
SumDt(a, b) == IF a > b THEN 0 ELSE Val(dt[b]) + SumDt(a, b - 1)

\* the time accumulated at row j since the most recent OUT-false row
RunTime(j) == SumDt(LastFalse(j) + 1, j)

\* the first row with the flag set
First(flags) == CHOOSE k \in 1..Len(flags) : flags[k] /\ \A j \in 1..(k - 1) : ~flags[j]

\* the column names of AllNames that contain "lambda" in some letter case
LambdaNamed == {"Lambda 1", "LAMBDA 2"}

MissingIdx == {k \in 1..Len(REQUIRED) : REQUIRED[k] \notin df.columns}

NoTable ==
    /\ pc \in {"raised", "done"}
    /\ status # 200
    /\ OUT = Empty /\ debut = Empty /\ QUALIFIE = Empty /\ etat = Empty

-----------------------------------------------------------------------------
(* C1: on every row of the returned table, OUT is true exactly when        *)
(* TPS >= 97 and at least one of the four other rules is false.            *)
C1_OutRule ==
    Returned =>
        /\ Len(OUT) = N
        /\ \A k \in 1..N :
            LET tps == df.rows[k]["TPS (%)"]
                throttle_ok == (tps # NaN) /\ Val(tps) >= 97
            IN  /\ TPS_OK[k] <=> throttle_ok
                /\ OUT[k] <=> (throttle_ok /\
                               (~Lambda_OK[k] \/ ~Fuel_OK[k] \/ ~IAT_OK[k] \/ ~ECT_OK[k]))
                /\ (~throttle_ok) => ~OUT[k]
                /\ (Lambda_OK[k] /\ Fuel_OK[k] /\ IAT_OK[k] /\ ECT_OK[k]) => ~OUT[k]

\* a returned row at full throttle whose only failing rule is fuel pressure
C1_Witness ==
    /\ pc = "returned"
    /\ \E k \in 1..N :
        OUT[k] /\ TPS_OK[k] /\ Lambda_OK[k] /\ ~Fuel_OK[k] /\ IAT_OK[k] /\ ECT_OK[k]

(* C2 (as claimed): dt is the time since the previous row, 0 for the first *)
(* row and for a row whose time is not later than the previous row's, so   *)
(* that acc is never negative.                                             *)
C2_ClampedDt ==
    /\ \A k \in 1..Len(dt) :
        IF k = 1 THEN Val(dt[k]) = 0
        ELSE (Time[k] # NaN /\ Time[k - 1] # NaN) =>
                Val(dt[k]) = IF Val(Time[k]) <= Val(Time[k - 1]) THEN 0
                             ELSE Val(Time[k]) - Val(Time[k - 1])
    /\ acc >= 0

(* C3: a row on which OUT is false resets acc to 0 and is not confirmed;   *)
(* an OUT row is confirmed according to the dt of the rows after the most  *)
(* recent OUT-false row only.                                              *)
C3_ResetOnFalse ==
    /\ \A j \in 1..Len(debut) :
        /\ (~OUT[j]) => ~debut[j]
        /\ OUT[j] => (debut[j] <=> RunTime(j) >= 5)
    /\ Len(debut) >= 1 =>
        acc = IF OUT[Len(debut)] THEN RunTime(Len(debut)) ELSE 0

\* time was accumulated (0.3 s or more), an OUT-false row followed, and the
\* next OUT row is not confirmed although the total since the start is >= 0.5 s
C3_Witness ==
    \E j \in 3..Len(debut) :
        /\ OUT[j] /\ ~OUT[j - 1] /\ OUT[j - 2]
        /\ RunTime(j - 2) >= 3
        /\ RunTime(j - 2) + RunTime(j) >= 5
        /\ ~debut[j]

(* C4: on an OUT row acc grows by that row's dt, the time since the        *)
(* previous row whatever that row's OUT, and the row is confirmed iff acc  *)
(* is then >= 0.5 s; the first OUT row after an OUT-false row is confirmed *)
(* at once when its dt >= 0.5 s; five OUT rows at t = 0.0 .. 0.8 are first *)
(* confirmed at t = 0.6.                                                   *)
C4_Accumulate ==
    /\ [][(pc = "loop" /\ Len(debut) < N /\ OUT[Len(debut) + 1]) =>
            LET k == Len(debut) + 1
            IN  /\ acc' = acc + Val(dt[k])
                /\ (k > 1 /\ Time[k] # NaN /\ Time[k - 1] # NaN) =>
                        Val(dt[k]) = Val(Time[k]) - Val(Time[k - 1])
                /\ debut' = Append(debut, acc' >= 5)]_vars
    /\ [](\A k \in 2..Len(debut) :
            (OUT[k] /\ ~OUT[k - 1]) => (debut[k] <=> Val(dt[k]) >= 5))
    /\ []((df = ScenarioB /\ Len(debut) = 5) =>
            (debut = <<FALSE, FALSE, FALSE, TRUE, TRUE>> /\ Time[First(debut)] = Num(6)))

\* the first OUT row after an OUT-false row, 0.5 s after it: confirmed at once
C4_Witness ==
    \E k \in 2..Len(debut) :
        OUT[k] /\ ~OUT[k - 1] /\ Val(dt[k]) = 5 /\ acc = 5 /\ debut[k] /\ k = Len(debut)

(* C5: confirmed-episode-start is true only on a row where OUT is true.    *)
C5_DebutImpliesOut ==
    \A k \in 1..Len(debut) : debut[k] => OUT[k]

\* a returned table with a confirmed row and, after it, an OUT-false row
C5_Witness ==
    /\ pc = "returned"
    /\ \E k \in 1..N : debut[k]
    /\ \E k \in 2..N : ~OUT[k] /\ debut[k - 1]

(* C6: QUALIFIE is false on row i iff confirmed-episode-start is true on   *)
(* row i or on row i-1; the first row's window holds only that row.        *)
C6_Qualified ==
    Returned =>
        /\ Len(QUALIFIE) = N
        /\ \A i \in 1..N :
            (~QUALIFIE[i]) <=> (debut[i] \/ (i > 1 /\ debut[i - 1]))

\* a row that is not confirmed itself and is disqualified by the row before
C6_Witness ==
    /\ pc = "returned"
    /\ \E i \in 2..N : debut[i - 1] /\ ~debut[i] /\ ~QUALIFIE[i] /\ QUALIFIE[1]

(* C7: the verdict is PASS iff no row is confirmed; otherwise it carries   *)
(* the elapsed time of the first confirmed row.                            *)
C7_Verdict ==
    (pc = "done" /\ status = 200) =>
        /\ (etat = <<"PASS">>) <=> (\A k \in 1..N : ~debut[k])
        /\ (\E k \in 1..N : debut[k]) =>
            /\ Len(etat) = 4
            /\ etat[1] = "CHEAT - Début à "
            /\ Time[First(debut)] # NaN
            /\ 100 * etat[2] + etat[3] = 10 * Val(Time[First(debut)])

\* two confirmed rows with different times: the verdict names the earlier
C7_Witness ==
    /\ pc = "done" /\ status = 200
    /\ \E j, k \in 1..N :
        j < k /\ debut[j] /\ debut[k] /\ Time[j] # Time[k] /\ Time[k] # NaN
    /\ etat[1] # "PASS"

(* C8: a missing required column raises the missing-column error naming    *)
(* the first absent one in the order of REQUIRED, whatever else is absent; *)
(* with all five present and no column named *lambda* it raises the        *)
(* no-lambda error; neither returns a table.                               *)
C8_Errors ==
    /\ (pc # "required" /\ MissingIdx # {}) =>
        /\ err = <<"Colonne manquante : ",
                   REQUIRED[CHOOSE k \in MissingIdx : \A j \in MissingIdx : k <= j]>>
        /\ NoTable
    /\ (pc \notin {"required", "lambda"} /\ MissingIdx = {}) =>
        IF df.columns \cap LambdaNamed = {}
        THEN err = <<"Aucune colonne Lambda détectée dans le fichier">> /\ NoTable
        ELSE err = Empty
    /\ (pc = "done") => (status = 500 <=> err # Empty)

\* fuel pressure and intake temperature absent, and no lambda column either
C8_Witness ==
    /\ pc = "done"
    /\ "TPS (%)" \in df.columns
    /\ MissingIdx = {2, 3}
    /\ df.columns \cap LambdaNamed = {}
    /\ err = <<"Colonne manquante : ", "Fuel Pressure (psi)">>

(* C9 (as claimed): a missing value in a channel makes the rule that uses  *)
(* the channel false on that row, also when only one of several lambda     *)
(* channels is missing.                                                    *)
C9_NaNFailsRule ==
    Returned =>
        \A k \in 1..N :
            /\ df.rows[k]["TPS (%)"] = NaN => ~TPS_OK[k]
            /\ df.rows[k]["Fuel Pressure (psi)"] = NaN => ~Fuel_OK[k]
            /\ df.rows[k]["IAT (°C)"] = NaN => ~IAT_OK[k]
            /\ df.rows[k]["ECT (°C)"] = NaN => ~ECT_OK[k]
            /\ (\E c \in df.columns \cap LambdaNamed : df.rows[k][c] = NaN) => ~Lambda_OK[k]

(* C10 (as claimed): at most one row of a run of OUT rows is confirmed.    *)
C10_OnePerRun ==
    \A j, k \in 1..Len(debut) :
        (j < k /\ LastFalse(j) = LastFalse(k) /\ OUT[j] /\ OUT[k]) => ~(debut[j] /\ debut[k])

(* C10 (amended): in a run of OUT rows no row is confirmed before the row  *)
(* on which the accumulated time first reaches 0.5 s, that row is          *)
(* confirmed, and so is every later row of the run on which the            *)
(* accumulated time is >= 0.5 s.                                           *)
C10_FromFirstCrossing ==
    \A k \in 1..Len(debut) :
        OUT[k] =>
            LET run == (LastFalse(k) + 1)..k
                crossed == {m \in run : RunTime(m) >= 5}
            IN  IF crossed = {} THEN \A m \in run : ~debut[m]
                ELSE LET first == CHOOSE m \in crossed : \A x \in crossed : m <= x
                     IN  /\ \A m \in run : m < first => ~debut[m]
                         /\ debut[first]
                         /\ \A m \in crossed : debut[m]

\* a run whose second row crosses the threshold and whose third is confirmed too
C10_Witness ==
    \E k \in 3..Len(debut) :
        /\ OUT[k] /\ OUT[k - 1] /\ OUT[k - 2] /\ LastFalse(k) = k - 3
        /\ ~debut[k - 2] /\ debut[k - 1] /\ debut[k]

=============================================================================
